---- MODULE Spec2Model ----
(***************************************************************************)
(* The tower-defense game of src/src/components/TowerDefenseGame.tsx: the  *)
(* React component state (gold, lives, gameSpeed, placingTower, ...), the  *)
(* entity collections kept in refs (towers, enemies, projectiles), the     *)
(* requestAnimationFrame loop registered by the game-loop effect, and the  *)
(* event handlers of the buttons, the selects and the canvas.              *)
(*                                                                         *)
(* Number representation.  The speed multiplier is one of 0.5, 1, 2, so    *)
(* every progress, coordinate and distance of the program is a multiple of *)
(* 0.5.  They are stored DOUBLED (gameSpeed 0.5 is 1, a distance of 5 px   *)
(* is 10); D(v) doubles a literal of the source.  Health is stored in      *)
(* hundredths (300 is 30000) and a resistance or an accuracy in percent    *)
(* (0.2 is 20), which makes damage * (1 - resistance) exact.               *)
(***************************************************************************)
EXTENDS Integers, Sequences, FiniteSets, TLC

VARIABLES
    gold,              \* useState(200): the state value, every queued update applied
    lives,             \* useState(20)
    language,          \* useState('zh')
    gameSpeed,         \* useState(1), doubled
    placingTower,      \* useState(null); "none" is null
    mousePosition,     \* useState({x: 0, y: 0}), abstracted to a position index
    isDarkMode,        \* useState(false)
    rendered,          \* the state values of the last committed render: what the
                       \* handlers and the registered gameLoop closure read
    towers,            \* towersRef.current
    enemies,           \* enemiesRef.current
    projectiles,       \* projectilesRef.current
    animationFrameId,  \* animationFrameId.current; 0 is null
    frames,            \* the pending requestAnimationFrame callbacks [id, cl]
    ticks,             \* how many times gameLoop ran
    commands,          \* how many events the handlers received
    gameOver           \* alert('Game Over!') was shown

vars == <<gold, lives, language, gameSpeed, placingTower, mousePosition, isDarkMode,
          rendered, towers, enemies, projectiles, animationFrameId, frames,
          ticks, commands, gameOver>>

D(v) == 2 * v

Abs(v) == IF v < 0 THEN -v ELSE v

(***************************************************************************)
(* Bounds of the model.                                                    *)
(***************************************************************************)
MaxTicks == 3           \* runs of gameLoop in one behaviour
MaxCommands == 2        \* events of the user (and of the media query) in one behaviour
MaxTowers == 2

(***************************************************************************)
(* Configuration.                                                          *)
(***************************************************************************)
towerTypes ==
    [basic  |-> [cost |-> 50, damage |-> 10, range |-> 100, accuracy |-> 80,
                 attackSpeed |-> 1000, element |-> "fire"],
     sniper |-> [cost |-> 100, damage |-> 30, range |-> 200, accuracy |-> 95,
                 attackSpeed |-> 1500, element |-> "ice"],
     splash |-> [cost |-> 150, damage |-> 20, range |-> 80, accuracy |-> 70,
                 attackSpeed |-> 1200, element |-> "electric"]]

TowerKeys == DOMAIN towerTypes

GameSpeeds == {1, 2, 4}        \* the options 0.5, 1, 2 of the speed select, doubled

Languages == {"en", "zh"}

MousePositions == {0, 1}       \* two distinct canvas positions of the pointer

\* Where the user clicks to place a tower: canvas points on the enemies' line
\* y = 200 (doubled), so that every shot travels along the x axis.
TowerPlaces == {[x |-> D(10), y |-> D(200)], [x |-> D(100), y |-> D(200)]}

\* Date.now() when the component mounts; like the real clock it is later than
\* every attackSpeed, so a new tower (lastShot = 0) is off cooldown.
Epoch == 2000

\* How much later than the latest time the program has stored Date.now() may
\* be when gameLoop reads it.
ClockSteps == {0, 1500, 1501}

\* Values of Math.random(), in percent.
Rolls == {0, 80, 95}

(***************************************************************************)
(* class Tower                                                             *)
(***************************************************************************)
NewTower(x, y, type) == [x |-> x, y |-> y, type |-> type, lastShot |-> 0]

\* (the cooldown test with >= for >)
canShootAtLeast(tower, currentTime) ==
    LET attackSpeed == towerTypes[tower.type].attackSpeed
    IN  (currentTime - tower.lastShot) >= attackSpeed

canShoot(tower, currentTime) ==
    LET attackSpeed == towerTypes[tower.type].attackSpeed
    IN  (currentTime - tower.lastShot) > attackSpeed

shoot(tower, currentTime) == [tower EXCEPT !.lastShot = currentTime]

(***************************************************************************)
(* class Enemy                                                             *)
(***************************************************************************)
NewEnemy(x, y, health, resistances) ==
    [x |-> x, y |-> y, health |-> health, maxHealth |-> health, progress |-> 0,
     resistances |-> resistances]

isAlive(enemy) == enemy.health > 0

\* (x taken from the progress before the step)
UpdateStaleX(enemy, speed) ==
    [enemy EXCEPT !.progress = @ + 1 * speed,
                  !.x = enemy.progress * 4]

\* (an update that leaves the enemy where it is)
UpdateStalled(enemy, speed) == enemy

\* progress += 1 * gameSpeed; x = progress * 4
Update(enemy, speed) ==
    [enemy EXCEPT !.progress = @ + 1 * speed,
                  !.x = (enemy.progress + 1 * speed) * 4]

\* (the end of the track passed, not reached)
reachedEndPast(enemy) == enemy.progress > D(200)

reachedEnd(enemy) == enemy.progress >= D(200)

\* resistances[element] || 0, in percent
ResistanceOf(enemy, element) ==
    IF element \in DOMAIN enemy.resistances THEN enemy.resistances[element] ELSE 0

\* (health clamped at 0)
takeDamageClamped(enemy, damage, element) ==
    LET resistance == ResistanceOf(enemy, element)
        effectiveDamage == damage * (100 - resistance)
    IN  [enemy EXCEPT !.health = IF @ - effectiveDamage < 0 THEN 0 ELSE @ - effectiveDamage]

\* health -= damage * (1 - resistance), in hundredths
takeDamage(enemy, damage, element) ==
    LET resistance == ResistanceOf(enemy, element)
        effectiveDamage == damage * (100 - resistance)
    IN  [enemy EXCEPT !.health = @ - effectiveDamage]

(***************************************************************************)
(* class Projectile                                                        *)
(***************************************************************************)
NewProjectile(x, y, targetX, targetY, damage, element) ==
    [x |-> x, y |-> y, targetX |-> targetX, targetY |-> targetY,
     damage |-> damage, element |-> element]

\* Math.hypot(dx, dy) < r, exactly
HypotLess(dx, dy, r) == dx * dx + dy * dy < r * r

\* Math.hypot(dx, dy) for a vector along an axis, the only ones that occur
\* with the towers on the enemies' line
Hypot(dx, dy) == IF dy = 0 THEN Abs(dx) ELSE Abs(dy)

\* Projectile.update: [exists, projectile]
ProjectileUpdate(projectile, speed) ==
    LET dx == projectile.targetX - projectile.x
        dy == projectile.targetY - projectile.y
        distance == Hypot(dx, dy)
    IN  IF distance < D(5)
        THEN [exists |-> FALSE, projectile |-> projectile]
        ELSE [exists |-> TRUE,
              projectile |-> [projectile EXCEPT
                               !.x = @ + (dx \div distance) * 5 * speed,
                               !.y = @ + (dy \div distance) * 5 * speed]]

(***************************************************************************)
(* gameLoop, in the order of its statements.                               *)
(***************************************************************************)
\* Array.prototype.find, given the indices that pass its test: the first of
\* them, 0 if there is none
Find(matches) ==
    IF matches = {} THEN 0
    ELSE CHOOSE i \in matches : \A j \in matches : i <= j

\* (the nearest enemy in range for the first one)
NearbyEnemyNearest(tower, es) ==
    LET inRange == {i \in 1..Len(es) :
                      /\ HypotLess(es[i].x - tower.x, es[i].y - tower.y,
                                   D(towerTypes[tower.type].range))
                      /\ isAlive(es[i])}
    IN  Find({i \in inRange :
                \A j \in inRange :
                    ~HypotLess(es[j].x - tower.x, es[j].y - tower.y,
                               Hypot(es[i].x - tower.x, es[i].y - tower.y))})

\* the find of the towers' loop: in range (strictly) and alive
NearbyEnemy(tower, es) ==
    Find({i \in 1..Len(es) :
            /\ HypotLess(es[i].x - tower.x, es[i].y - tower.y,
                         D(towerTypes[tower.type].range))
            /\ isAlive(es[i])})

\* (the last enemy within 20 of the target point for the first one)
HitEnemyLast(projectile, es) ==
    LET near == {i \in 1..Len(es) :
                   /\ HypotLess(es[i].x - projectile.targetX,
                                es[i].y - projectile.targetY, D(20))
                   /\ isAlive(es[i])}
    IN  IF near = {} THEN 0 ELSE CHOOSE i \in near : \A j \in near : j <= i

\* the find of the projectiles' loop: within 20 of the target point and alive
HitEnemy(projectile, es) ==
    Find({i \in 1..Len(es) :
            /\ HypotLess(es[i].x - projectile.targetX, es[i].y - projectile.targetY, D(20))
            /\ isAlive(es[i])})

\* (the accuracy test with <= for <)
RollHitsAtMost(roll, type) == roll <= towerTypes[type].accuracy

\* Math.random() < accuracy
RollHits(roll, type) == roll < towerTypes[type].accuracy

\* (tower.shoot(currentTime) moved into the branch of the accuracy test)
TowerAttackResetOnHit(tower, es, currentTime, roll) ==
    LET nearbyEnemy == NearbyEnemy(tower, es)
    IN  IF nearbyEnemy # 0 /\ canShoot(tower, currentTime) /\ RollHits(roll, tower.type)
        THEN [tower |-> shoot(tower, currentTime),
              pushed |-> << NewProjectile(tower.x, tower.y,
                                          es[nearbyEnemy].x, es[nearbyEnemy].y,
                                          towerTypes[tower.type].damage,
                                          towerTypes[tower.type].element) >>]
        ELSE [tower |-> tower, pushed |-> <<>>]

\* (tower.shoot(currentTime) whenever the cooldown has elapsed, target or not)
TowerAttackShootsIdle(tower, es, currentTime, roll) ==
    LET nearbyEnemy == NearbyEnemy(tower, es)
    IN  IF canShoot(tower, currentTime)
        THEN [tower |-> shoot(tower, currentTime),
              pushed |-> IF nearbyEnemy # 0 /\ RollHits(roll, tower.type)
                         THEN << NewProjectile(tower.x, tower.y,
                                               es[nearbyEnemy].x, es[nearbyEnemy].y,
                                               towerTypes[tower.type].damage,
                                               towerTypes[tower.type].element) >>
                         ELSE <<>>]
        ELSE [tower |-> tower, pushed |-> <<>>]

\* The body of the towers' loop for one tower: the tower after it and the
\* projectiles it pushed; roll is the value Math.random() gives.
TowerAttack(tower, es, currentTime, roll) ==
    LET nearbyEnemy == NearbyEnemy(tower, es)
    IN  IF nearbyEnemy # 0 /\ canShoot(tower, currentTime)
        THEN [tower |-> shoot(tower, currentTime),
              pushed |-> IF RollHits(roll, tower.type)
                         THEN << NewProjectile(tower.x, tower.y,
                                               es[nearbyEnemy].x, es[nearbyEnemy].y,
                                               towerTypes[tower.type].damage,
                                               towerTypes[tower.type].element) >>
                         ELSE <<>>]
        ELSE [tower |-> tower, pushed |-> <<>>]

\* towersRef.current.forEach(...): the towers after the loop and the
\* projectiles it pushed; rolls[i] is the value Math.random() gives tower i
RECURSIVE TowersAttack(_, _, _, _, _, _)
TowersAttack(ts, i, es, ps, currentTime, rolls) ==
    IF i > Len(ts) THEN [towers |-> ts, projectiles |-> ps]
    ELSE
      LET attack == TowerAttack(ts[i], es, currentTime, rolls[i])
      IN  TowersAttack([ts EXCEPT ![i] = attack.tower], i + 1, es,
                       ps \o attack.pushed, currentTime, rolls)

\* projectilesRef.current.filter(...): the projectiles kept (moved) and the
\* enemies after the damage of the ones that arrived
RECURSIVE ProjectilesFilter(_, _, _, _, _)
ProjectilesFilter(ps, i, kept, es, speed) ==
    IF i > Len(ps) THEN [projectiles |-> kept, enemies |-> es]
    ELSE
      LET u == ProjectileUpdate(ps[i], speed)
          hitEnemy == HitEnemy(ps[i], es)
      IN  IF u.exists
          THEN ProjectilesFilter(ps, i + 1, Append(kept, u.projectile), es, speed)
          ELSE ProjectilesFilter(ps, i + 1, kept,
                 IF hitEnemy # 0
                 THEN [es EXCEPT ![hitEnemy] =
                         takeDamage(es[hitEnemy], ps[i].damage, ps[i].element)]
                 ELSE es,
                 speed)

\* (the partition keeps every enemy short of the end, dead or alive)
SurvivingEnemiesShortOfEnd(es) == SelectSeq(es, LAMBDA enemy : ~reachedEnd(enemy))

\* enemies.filter(enemy => enemy.isAlive() && !enemy.reachedEnd())
SurvivingEnemies(es) == SelectSeq(es, LAMBDA enemy : isAlive(enemy) /\ ~reachedEnd(enemy))

\* enemiesRef.current.forEach(enemy => enemy.update(gameSpeed))
Moved(es, speed) == [i \in 1..Len(es) |-> Update(es[i], speed)]

\* (the towers' loop placed before the enemies' update)
StepAttackFirst(ts, es, ps, speed, currentTime, rolls) ==
    LET attack == TowersAttack(ts, 1, es, ps, currentTime, rolls)
        moved == Moved(es, speed)
        flight == ProjectilesFilter(attack.projectiles, 1, <<>>, moved, speed)
        survivingEnemies == SurvivingEnemies(flight.enemies)
    IN  [towers |-> attack.towers,
         projectiles |-> flight.projectiles,
         enemies |-> survivingEnemies,
         defeatedEnemies |-> Len(flight.enemies) - Len(survivingEnemies)]

\* (the dead and the enemies at the end of the track counted separately)
StepCountsBoth(ts, es, ps, speed, currentTime, rolls) ==
    LET moved == Moved(es, speed)
        attack == TowersAttack(ts, 1, moved, ps, currentTime, rolls)
        flight == ProjectilesFilter(attack.projectiles, 1, <<>>, moved, speed)
        survivingEnemies == SurvivingEnemies(flight.enemies)
    IN  [towers |-> attack.towers,
         projectiles |-> flight.projectiles,
         enemies |-> survivingEnemies,
         defeatedEnemies |->
             Len(SelectSeq(flight.enemies, LAMBDA enemy : ~isAlive(enemy)))
               + Len(SelectSeq(flight.enemies, reachedEnd))]

\* One run of gameLoop on the entity collections, with the gameSpeed of its
\* closure: what it leaves in the refs and the count it passes to setLives
\* and setGold.
Step(ts, es, ps, speed, currentTime, rolls) ==
    LET moved == Moved(es, speed)
        attack == TowersAttack(ts, 1, moved, ps, currentTime, rolls)
        flight == ProjectilesFilter(attack.projectiles, 1, <<>>, moved, speed)
        survivingEnemies == SurvivingEnemies(flight.enemies)
    IN  [towers |-> attack.towers,
         projectiles |-> flight.projectiles,
         enemies |-> survivingEnemies,
         defeatedEnemies |-> Len(flight.enemies) - Len(survivingEnemies)]

(***************************************************************************)
(* The component: state, renders and the game-loop effect.                 *)
(***************************************************************************)
\* the state values a render started now would read
Current ==
    [gold |-> gold, lives |-> lives, language |-> language, gameSpeed |-> gameSpeed,
     placingTower |-> placingTower, mousePosition |-> mousePosition,
     isDarkMode |-> isDarkMode]

\* requestAnimationFrame returns an id that no pending callback has.  Both
\* callers store it in the ref at once, so the number itself is immaterial
\* and the least free one stands for it.
FreshId(fs) ==
    CHOOSE id \in 1..(Cardinality(fs) + 1) :
        /\ id \notin {f.id : f \in fs}
        /\ \A other \in 1..(id - 1) : other \in {f.id : f \in fs}

\* cancelAnimationFrame(id)
Cancel(fs, id) == {f \in fs : f.id # id}

\* (a commit whose effect has no cleanup)
CommitNoCleanup(r) ==
    LET id == FreshId(frames)
    IN  /\ rendered' = r
        /\ frames' = frames \cup {[id |-> id, cl |-> r]}
        /\ animationFrameId' = id

\* A commit of the render r whose values differ from the last one's: the
\* cleanup of the game-loop effect cancels the frame the ref names, and the
\* effect requests a frame for a gameLoop that closes over r.
Commit(r) ==
    LET kept == IF animationFrameId # 0 THEN Cancel(frames, animationFrameId) ELSE frames
        id == FreshId(kept)
    IN  /\ rendered' = r
        /\ frames' = kept \cup {[id |-> id, cl |-> r]}
        /\ animationFrameId' = id

\* The render React runs before a discrete event (click, change) returns.  It
\* shows the handler's own updates, given as the fields of upd, applied to the
\* last render (the updates a gameLoop or a mouse move queued wait for their
\* own render) or, when React renders both together, every update so far.
SyncRender(upd, next) ==
    \E r \in {[k \in DOMAIN rendered |-> IF k \in DOMAIN upd THEN upd[k] ELSE rendered[k]],
              next} :
        IF r = rendered
        THEN UNCHANGED <<rendered, frames, animationFrameId>>
        ELSE Commit(r)

Init ==
    /\ gold = 200
    /\ lives = 20
    /\ language = "zh"
    /\ gameSpeed = D(1)
    /\ placingTower = "none"
    /\ mousePosition = 0
    /\ isDarkMode = FALSE
    /\ rendered = Current
    /\ towers = <<>>
    /\ enemies = <<>>
    /\ projectiles = <<>>
    /\ animationFrameId = 1
    /\ frames = {[id |-> 1, cl |-> rendered]}
    /\ ticks = 0
    /\ commands = 0
    /\ gameOver = FALSE

\* the handlers take one more event
Command ==
    /\ commands < MaxCommands
    /\ commands' = commands + 1

\* (one life a run, however many enemies were removed)
LivesUpdateOnce(prev, defeatedEnemies) == prev - 1

\* the updaters gameLoop hands to setLives and setGold
LivesUpdate(prev, defeatedEnemies) == prev - defeatedEnemies

\* (a sign slip: the removals cost gold)
GoldUpdateCharged(prev, defeatedEnemies) == prev - defeatedEnemies * 10

GoldUpdate(prev, defeatedEnemies) == prev + defeatedEnemies * 10

\* the latest time the program has stored
RECURSIVE Latest(_, _)
Latest(ts, i) ==
    IF i > Len(ts) THEN Epoch
    ELSE LET later == Latest(ts, i + 1)
         IN  IF ts[i].lastShot > later THEN ts[i].lastShot ELSE later

\* Date.now() in a run of gameLoop: dt later than Latest
CurrentTime(dt) == Latest(towers, 1) + dt

\* the enemies of a run of gameLoop after the projectiles' loop, before the
\* partition
Damaged(speed, currentTime, rolls) ==
    LET moved == Moved(enemies, speed)
        attack == TowersAttack(towers, 1, moved, projectiles, currentTime, rolls)
    IN  ProjectilesFilter(attack.projectiles, 1, <<>>, moved, speed).enemies

\* gameLoop with the closure cl of the pending frame callback f: what it
\* does to the component
GameLoopRun(f, dt, rolls) ==
    LET cl == f.cl
        currentTime == CurrentTime(dt)
        step == Step(towers, enemies, projectiles, cl.gameSpeed, currentTime, rolls)
        rest == frames \ {f}
        id == FreshId(rest)
    IN  /\ towers' = step.towers
        /\ projectiles' = step.projectiles
        /\ enemies' = step.enemies
        /\ IF step.defeatedEnemies > 0
           THEN /\ lives' = LivesUpdate(lives, step.defeatedEnemies)
                /\ gold' = GoldUpdate(gold, step.defeatedEnemies)
           ELSE UNCHANGED <<lives, gold>>
        /\ IF cl.lives <= 0
           THEN /\ frames' = Cancel(rest, animationFrameId)
                /\ gameOver' = TRUE
                /\ UNCHANGED animationFrameId
           ELSE /\ frames' = rest \cup {[id |-> id, cl |-> cl]}
                /\ animationFrameId' = id
                /\ UNCHANGED gameOver
        /\ UNCHANGED <<language, gameSpeed, placingTower, mousePosition, isDarkMode,
                       rendered, commands>>

\* a pending frame callback runs, within the budget of runs
GameLoop(f, dt, rolls) ==
    /\ ticks < MaxTicks
    /\ ticks' = ticks + 1
    /\ GameLoopRun(f, dt, rolls)

Frame ==
    \E f \in frames, dt \in ClockSteps, rolls \in [1..Len(towers) -> Rolls] :
        GameLoop(f, dt, rolls)

\* React renders the updates queued outside a discrete event.
Render ==
    /\ Current # rendered
    /\ Commit(Current)
    /\ UNCHANGED <<gold, lives, language, gameSpeed, placingTower, mousePosition,
                   isDarkMode, towers, enemies, projectiles, ticks, commands, gameOver>>

\* (setGold(gold - towerCost): the price is taken from the gold of the render)
addTowerFromRender(x, y, type) ==
    LET towerCost == towerTypes[type].cost
    IN  /\ IF rendered.gold >= towerCost
           THEN /\ towers' = Append(towers, NewTower(x, y, type))
                /\ gold' = rendered.gold - towerCost
           ELSE UNCHANGED <<towers, gold>>
        /\ placingTower' = "none"

\* (setPlacingTower(null) left out)
addTowerKeepsMode(x, y, type) ==
    LET towerCost == towerTypes[type].cost
    IN  /\ IF rendered.gold >= towerCost
           THEN /\ towers' = Append(towers, NewTower(x, y, type))
                /\ gold' = gold - towerCost
           ELSE UNCHANGED <<towers, gold>>
        /\ placingTower' = placingTower

\* (towersRef.current = [new Tower(...)] for push)
addTowerReplacing(x, y, type) ==
    LET towerCost == towerTypes[type].cost
    IN  /\ IF rendered.gold >= towerCost
           THEN /\ towers' = << NewTower(x, y, type) >>
                /\ gold' = gold - towerCost
           ELSE UNCHANGED <<towers, gold>>
        /\ placingTower' = "none"

\* (the tower pushed at half its cost)
addTowerHalfPrice(x, y, type) ==
    LET towerCost == towerTypes[type].cost
    IN  /\ IF rendered.gold >= towerCost
           THEN /\ towers' = Append(towers, NewTower(x, y, type))
                /\ gold' = gold - towerCost \div 2
           ELSE UNCHANGED <<towers, gold>>
        /\ placingTower' = "none"

\* addTower, called by handleCanvasClick with the placingTower of its render
addTower(x, y, type) ==
    LET towerCost == towerTypes[type].cost
    IN  /\ IF rendered.gold >= towerCost
           THEN /\ towers' = Append(towers, NewTower(x, y, type))
                /\ gold' = gold - towerCost
           ELSE UNCHANGED <<towers, gold>>
        /\ placingTower' = "none"

HandleCanvasClick(place) ==
    /\ rendered.placingTower # "none"
    /\ Len(towers) < MaxTowers
    /\ addTower(place.x, place.y, rendered.placingTower)
    /\ SyncRender([gold |-> rendered.gold + (gold' - gold), placingTower |-> "none"],
                  [Current EXCEPT !.gold = gold', !.placingTower = "none"])
    /\ Command
    /\ UNCHANGED <<lives, language, gameSpeed, mousePosition, isDarkMode, enemies,
                   projectiles, ticks, gameOver>>

\* (a tower button that is never disabled)
SetPlacingTowerAlways(type) ==
    /\ type # placingTower
    /\ placingTower' = type
    /\ SyncRender([placingTower |-> type], [Current EXCEPT !.placingTower = type])
    /\ Command
    /\ UNCHANGED <<gold, lives, language, gameSpeed, mousePosition, isDarkMode, towers,
                   enemies, projectiles, ticks, gameOver>>

\* a tower button, enabled while the rendered gold covers the cost
SetPlacingTower(type) ==
    /\ ~(rendered.gold < towerTypes[type].cost)
    /\ type # placingTower
    /\ placingTower' = type
    /\ SyncRender([placingTower |-> type], [Current EXCEPT !.placingTower = type])
    /\ Command
    /\ UNCHANGED <<gold, lives, language, gameSpeed, mousePosition, isDarkMode, towers,
                   enemies, projectiles, ticks, gameOver>>

\* the cancel button, rendered while placingTower is set
CancelPlacing ==
    /\ rendered.placingTower # "none"
    /\ placingTower' = "none"
    /\ SyncRender([placingTower |-> "none"], [Current EXCEPT !.placingTower = "none"])
    /\ Command
    /\ UNCHANGED <<gold, lives, language, gameSpeed, mousePosition, isDarkMode, towers,
                   enemies, projectiles, ticks, gameOver>>

\* (the health of the constructor's caller left at 100)
SpawnedEnemyWeak == NewEnemy(0, D(200), 100 * 100, [fire |-> 20, ice |-> 0, electric |-> 10])

\* the enemy spawnEnemy constructs
SpawnedEnemy == NewEnemy(0, D(200), 300 * 100, [fire |-> 20, ice |-> 0, electric |-> 10])

spawnEnemy ==
    /\ enemies' = Append(enemies, SpawnedEnemy)
    /\ Command
    /\ UNCHANGED <<gold, lives, language, gameSpeed, placingTower, mousePosition,
                   isDarkMode, rendered, towers, projectiles, animationFrameId, frames,
                   ticks, gameOver>>

\* the value attribute of the option of a speed, as the DOM holds it
OptionValue(speed) ==
    CASE speed = 1 -> "0.5"
      [] speed = D(1) -> "1"
      [] speed = D(2) -> "2"

\* (parseInt(e.target.value) for Number(e.target.value))
ParseInt(value) ==
    CASE value = "0.5" -> D(0)
      [] value = "1" -> D(1)
      [] value = "2" -> D(2)

\* Number(e.target.value), doubled
Number(value) ==
    CASE value = "0.5" -> 1
      [] value = "1" -> D(1)
      [] value = "2" -> D(2)

\* onChange of the speed select: the user picked another option
SetGameSpeed(speed) ==
    /\ speed # gameSpeed
    /\ gameSpeed' = Number(OptionValue(speed))
    /\ SyncRender([gameSpeed |-> gameSpeed'], [Current EXCEPT !.gameSpeed = gameSpeed'])
    /\ Command
    /\ UNCHANGED <<gold, lives, language, placingTower, mousePosition, isDarkMode,
                   towers, enemies, projectiles, ticks, gameOver>>

\* onChange of the language select
SetLanguage(lang) ==
    /\ lang # language
    /\ language' = lang
    /\ SyncRender([language |-> lang], [Current EXCEPT !.language = lang])
    /\ Command
    /\ UNCHANGED <<gold, lives, gameSpeed, placingTower, mousePosition, isDarkMode,
                   towers, enemies, projectiles, ticks, gameOver>>

\* handleCanvasMouseMove: the update waits for the next Render
HandleCanvasMouseMove(position) ==
    /\ position # mousePosition
    /\ mousePosition' = position
    /\ Command
    /\ UNCHANGED <<gold, lives, language, gameSpeed, placingTower, isDarkMode, rendered,
                   towers, enemies, projectiles, animationFrameId, frames, ticks,
                   gameOver>>

\* handleChange of the prefers-color-scheme media query
HandleChange(matches) ==
    /\ matches # isDarkMode
    /\ isDarkMode' = matches
    /\ Command
    /\ UNCHANGED <<gold, lives, language, gameSpeed, placingTower, mousePosition,
                   rendered, towers, enemies, projectiles, animationFrameId, frames,
                   ticks, gameOver>>

(***************************************************************************)
(* Positions of play.  A kill takes ten shots of a sniper and a leak two   *)
(* hundred runs of gameLoop, so the specification SpecPlay starts from     *)
(* positions the program reaches later in a game; each is computed by      *)
(* replaying a script of commands and runs of gameLoop from the state      *)
(* after construction, with the operators above.                           *)
(***************************************************************************)
\* n runs of gameLoop with no command in between, at the given speed, every
\* run reading the clock dt later than Latest and every roll being roll;
\* play is [towers, enemies, projectiles, gold, lives]
RunOnce(play, speed, dt, roll) ==
    LET step == Step(play.towers, play.enemies, play.projectiles, speed,
                     Latest(play.towers, 1) + dt,
                     [i \in 1..Len(play.towers) |-> roll])
    IN  [towers |-> step.towers, enemies |-> step.enemies,
         projectiles |-> step.projectiles,
         gold |-> GoldUpdate(play.gold, step.defeatedEnemies),
         lives |-> LivesUpdate(play.lives, step.defeatedEnemies)]

\* (the runs are split in two halves, the first evaluated before the second
\* starts, to keep the evaluation shallow)
RECURSIVE Run(_, _, _, _, _)
Run(play, n, speed, dt, roll) ==
    IF n = 0 THEN play
    ELSE IF n = 1 THEN RunOnce(play, speed, dt, roll)
    ELSE CHOOSE last \in {Run(middle, n - (n \div 2), speed, dt, roll) :
                              middle \in {Run(play, n \div 2, speed, dt, roll)}} : TRUE

\* k clicks of the spawn button
RECURSIVE Spawn(_, _)
Spawn(play, k) ==
    IF k = 0 THEN play
    ELSE Spawn([play EXCEPT !.enemies = Append(@, SpawnedEnemy)], k - 1)

\* a tower button and a canvas click for each purchase of buy, as addTower
\* settles them
RECURSIVE Buy(_, _, _)
Buy(play, buy, i) ==
    IF i > Len(buy) THEN play
    ELSE
      LET towerCost == towerTypes[buy[i].type].cost
      IN  Buy(IF play.gold >= towerCost
              THEN [play EXCEPT
                      !.towers = Append(@, NewTower(buy[i].place.x, buy[i].place.y,
                                                    buy[i].type)),
                      !.gold = @ - towerCost]
              ELSE play,
              buy, i + 1)

\* The phases of a script in turn: each buys towers, spawns a wave and runs
\* gameLoop, the clock 1501 ms later at every run and every roll the same.
RECURSIVE Replay(_, _, _, _)
Replay(play, phases, i, speed) ==
    IF i > Len(phases) THEN play
    ELSE Replay(Run(Spawn(Buy(play, phases[i].buy, 1), phases[i].wave),
                    phases[i].runs, speed, 1501, phases[i].roll),
                phases, i + 1, speed)

\* The scripts, each a speed chosen at the start and its phases: no command
\* at all; two enemies about to leave the track; the same with two lives
\* left; an enemy one sniper hit from death; both an enemy about to leave and
\* one about to die; an enemy one run short of the edge of the range of a
\* sniper that has missed it all along; an enemy one run short of the end of
\* the track and one sniper hit from death, with the projectile that will kill
\* it about to arrive.
Scripts ==
    { [speed |-> D(1), phases |-> <<>>],
      [speed |-> 1, phases |-> << [buy |-> <<>>, wave |-> 2, runs |-> 399, roll |-> 0] >>],
      [speed |-> 1, phases |-> << [buy |-> <<>>, wave |-> 18, runs |-> 400, roll |-> 0],
                                  [buy |-> <<>>, wave |-> 2, runs |-> 399, roll |-> 0] >>],
      [speed |-> 1,
       phases |-> << [buy |-> << [type |-> "sniper", place |-> [x |-> D(10), y |-> D(200)]] >>,
                      wave |-> 1, runs |-> 12, roll |-> 0] >>],
      [speed |-> 1,
       phases |-> << [buy |-> <<>>, wave |-> 1, runs |-> 387, roll |-> 0],
                     [buy |-> << [type |-> "sniper", place |-> [x |-> D(10), y |-> D(200)]] >>,
                      wave |-> 1, runs |-> 12, roll |-> 0] >>],
      [speed |-> 1,
       phases |-> << [buy |-> << [type |-> "sniper", place |-> [x |-> D(10), y |-> D(200)]] >>,
                      wave |-> 1, runs |-> 104, roll |-> 95] >>],
      [speed |-> 1,
       phases |-> << [buy |-> << [type |-> "sniper", place |-> [x |-> D(775), y |-> D(200)]] >>,
                      wave |-> 1, runs |-> 385, roll |-> 95],
                     [buy |-> <<>>, wave |-> 0, runs |-> 10, roll |-> 0],
                     [buy |-> <<>>, wave |-> 0, runs |-> 4, roll |-> 95] >>] }

Position(script) ==
    Replay([towers |-> <<>>, enemies |-> <<>>, projectiles |-> <<>>,
            gold |-> 200, lives |-> 20],
           script.phases, 1, script.speed)

InitPlay ==
    \E script \in Scripts :
        LET play == Position(script)
        IN  /\ gold = play.gold
            /\ lives = play.lives
            /\ language = "zh"
            /\ gameSpeed = script.speed
            /\ placingTower = "none"
            /\ mousePosition = 0
            /\ isDarkMode = FALSE
            /\ rendered = Current
            /\ towers = play.towers
            /\ enemies = play.enemies
            /\ projectiles = play.projectiles
            /\ animationFrameId = 1
            /\ frames = {[id |-> 1, cl |-> rendered]}
            /\ ticks = 0
            /\ commands = 0
            /\ gameOver = FALSE

Next ==
    \/ Frame
    \/ Render
    \/ \E place \in TowerPlaces : HandleCanvasClick(place)
    \/ \E type \in TowerKeys : SetPlacingTower(type)
    \/ CancelPlacing
    \/ spawnEnemy
    \/ \E speed \in GameSpeeds : SetGameSpeed(speed)
    \/ \E lang \in Languages : SetLanguage(lang)
    \/ \E position \in MousePositions : HandleCanvasMouseMove(position)
    \/ \E matches \in BOOLEAN : HandleChange(matches)

Spec == Init /\ [][Next]_vars

SpecPlay == InitPlay /\ [][Next]_vars

(***************************************************************************)
(* Enemy.takeDamage on its own: an enemy constructed with one of a few      *)
(* resistance tables takes the damage of the tower types, in any order,    *)
(* while it is alive (gameLoop calls takeDamage on alive enemies only).    *)
(***************************************************************************)
\* the table of spawnEnemy, and two with elements left out
ResistanceTables ==
    { [fire |-> 20, ice |-> 0, electric |-> 10], [fire |-> 20], [ice |-> 50] }

InitDamage ==
    /\ gold = 200
    /\ lives = 20
    /\ language = "zh"
    /\ gameSpeed = D(1)
    /\ placingTower = "none"
    /\ mousePosition = 0
    /\ isDarkMode = FALSE
    /\ rendered = Current
    /\ towers = <<>>
    /\ \E resistances \in ResistanceTables :
           enemies = << NewEnemy(0, D(200), 300 * 100, resistances) >>
    /\ projectiles = <<>>
    /\ animationFrameId = 1
    /\ frames = {[id |-> 1, cl |-> rendered]}
    /\ ticks = 0
    /\ commands = 0
    /\ gameOver = FALSE

\* hitEnemy.takeDamage(projectile.damage, projectile.element) for a
\* projectile of a tower of the given type
TakeDamage(type) ==
    /\ isAlive(enemies[1])
    /\ enemies' = << takeDamage(enemies[1], towerTypes[type].damage,
                                towerTypes[type].element) >>
    /\ UNCHANGED <<gold, lives, language, gameSpeed, placingTower, mousePosition,
                   isDarkMode, rendered, towers, projectiles, animationFrameId, frames,
                   ticks, commands, gameOver>>

NextDamage == \E type \in TowerKeys : TakeDamage(type)

SpecDamage == InitDamage /\ [][NextDamage]_vars

(***************************************************************************)
(* The scenario of one enemy under the fire of basic towers.  A basic      *)
(* tower on the track lands 27 hits on an enemy that crosses at speed 0.5   *)
(* when every roll hits, so two are bought, at x = 100 and x = 300; the    *)
(* second one misses while the enemy approaches it.  The specification     *)
(* starts along the scenario, where the first tower's hits begin to land   *)
(* or in the last phase, and runs gameLoop on.                             *)
(***************************************************************************)
\* runs of the last phase, up to the one before the 38th hit lands
ScenarioRuns == 17

ScenarioSetup ==
    << [type |-> "basic", place |-> [x |-> D(100), y |-> D(200)]],
       [type |-> "basic", place |-> [x |-> D(300), y |-> D(200)]] >>

ScenarioScripts ==
    { [speed |-> 1,
       phases |-> << [buy |-> ScenarioSetup, wave |-> 1, runs |-> first, roll |-> 0] >>]
          : first \in 40..60 }
    \cup
    { [speed |-> 1,
       phases |-> << [buy |-> ScenarioSetup, wave |-> 1, runs |-> 100, roll |-> 0],
                     [buy |-> <<>>, wave |-> 0, runs |-> 49, roll |-> 80],
                     [buy |-> <<>>, wave |-> 0, runs |-> last, roll |-> 0] >>]
          : last \in 0..ScenarioRuns }

InitScenario ==
    \E script \in ScenarioScripts :
        LET play == Position(script)
        IN  /\ gold = play.gold
            /\ lives = play.lives
            /\ language = "zh"
            /\ gameSpeed = script.speed
            /\ placingTower = "none"
            /\ mousePosition = 0
            /\ isDarkMode = FALSE
            /\ rendered = Current
            /\ towers = play.towers
            /\ enemies = play.enemies
            /\ projectiles = play.projectiles
            /\ animationFrameId = 1
            /\ frames = {[id |-> 1, cl |-> rendered]}
            /\ ticks = 0
            /\ commands = 0
            /\ gameOver = FALSE

NextScenario ==
    \/ Frame
    \/ Render

SpecScenario == InitScenario /\ [][NextScenario]_vars

(***************************************************************************)
(* The track: the frames keep coming, as the browser runs every pending    *)
(* animation-frame callback; enemies are spawned and the speed is changed  *)
(* within the budget of commands, and no tower is bought.                  *)
(***************************************************************************)
FrameTrack ==
    \E f \in frames, dt \in ClockSteps, rolls \in [1..Len(towers) -> Rolls] :
        GameLoopRun(f, dt, rolls) /\ UNCHANGED ticks

NextTrack ==
    \/ FrameTrack
    \/ Render
    \/ spawnEnemy
    \/ \E speed \in GameSpeeds : SetGameSpeed(speed)

SpecTrack == Init /\ [][NextTrack]_vars /\ WF_vars(FrameTrack)

(***************************************************************************)
(* Projectiles in flight: a basic tower clicked at (3, 200), which has     *)
(* missed an enemy all along, and that enemy two runs short of the edge of *)
(* the tower's range, at each speed; the frames keep coming, and no        *)
(* command follows.                                                        *)
(***************************************************************************)
FlightScripts ==
    { [speed |-> speed,
       phases |-> << [buy |-> << [type |-> "basic", place |-> [x |-> D(3), y |-> D(200)]] >>,
                      wave |-> 1, runs |-> 52 \div speed - 3, roll |-> 80] >>]
          : speed \in GameSpeeds }

InitFlight ==
    \E script \in FlightScripts :
        LET play == Position(script)
        IN  /\ gold = play.gold
            /\ lives = play.lives
            /\ language = "zh"
            /\ gameSpeed = script.speed
            /\ placingTower = "none"
            /\ mousePosition = 0
            /\ isDarkMode = FALSE
            /\ rendered = Current
            /\ towers = play.towers
            /\ enemies = play.enemies
            /\ projectiles = play.projectiles
            /\ animationFrameId = 1
            /\ frames = {[id |-> 1, cl |-> rendered]}
            /\ ticks = 0
            /\ commands = 0
            /\ gameOver = FALSE

NextFlight ==
    \/ FrameTrack
    \/ Render

SpecFlight == InitFlight /\ [][NextFlight]_vars /\ WF_vars(FrameTrack)

(***************************************************************************)
(* The claims.                                                             *)
(***************************************************************************)
\* C1, as stated: the run of gameLoop that brings lives to 0 or below is the
\* last run that executes, so no run of gameLoop starts while lives <= 0.
C1_LastTick == [][lives <= 0 => ticks' = ticks]_vars

\* C2, as stated: once gameLoop has detected lives <= 0 and stopped, no event
\* makes gameLoop run again, and gold and lives never change.
C2_GameOverTerminal ==
    [][gameOver => (ticks' = ticks /\ gold' = gold /\ lives' = lives)]_vars

\* C3: a canvas click in placing mode, which calls addTower with the clicked
\* place and the type being placed, adds no tower and leaves gold alone when
\* gold is below the cost of the type, and otherwise appends exactly one tower
\* of that type at that place and takes exactly the cost from gold.
C3_Affordability ==
    [][\A place \in TowerPlaces :
          HandleCanvasClick(place) =>
              LET type == rendered.placingTower
                  cost == towerTypes[type].cost
              IN  IF gold < cost
                  THEN towers' = towers /\ gold' = gold
                  ELSE /\ towers' = Append(towers, NewTower(place.x, place.y, type))
                       /\ gold' = gold - cost]_vars

\* a splash tower bought from the starting gold; a removal had been rewarded
\* in between
C3_Witness ==
    /\ commands = 2
    /\ Len(towers) = 1
    /\ towers[1] = NewTower(D(100), D(200), "splash")
    /\ gold \in {50, 70}

\* C4: gold is never negative, whatever the order of placements, changes of
\* placing mode, spawns, speed changes, runs of gameLoop and renders.
C4_GoldNonNegative == gold >= 0

\* a sniper bought with the last 100 gold, and: a splash tower bought by a
\* click that came between the reward of two removals and its render
C4_Witness ==
    \/ /\ gold = 0
       /\ Len(towers) = 2
    \/ /\ Len(towers) = 1
       /\ towers[1].type = "splash"
       /\ gold = 70
       /\ rendered.gold = 50

\* C5: a tower pushes a projectile in a run of gameLoop only if more than the
\* attackSpeed of its type has passed on the clock since its lastShot, at
\* every game speed and whatever the rolls, and the push sets lastShot to the
\* time of the run: two projectiles of one tower are more than one attack
\* interval apart.
C5_Cooldown ==
    [][\A f \in frames, dt \in ClockSteps, rolls \in [1..Len(towers) -> Rolls] :
          GameLoop(f, dt, rolls) =>
              \A i \in 1..Len(towers) :
                  TowerAttack(towers[i], Moved(enemies, f.cl.gameSpeed),
                              CurrentTime(dt), rolls[i]).pushed # <<>>
                  => /\ CurrentTime(dt) - towers[i].lastShot
                            > towerTypes[towers[i].type].attackSpeed
                     /\ towers'[i].lastShot = CurrentTime(dt)
                     /\ towers'[i].lastShot > towers[i].lastShot]_vars

\* at speed 2 the sniper, whose last shot was at 20012, has pushed its next
\* projectile 1501 ms later, at an enemy now at progress 8
C5_Witness ==
    /\ ticks = 1
    /\ \E i \in 1..Len(towers) : towers[i].type = "sniper" /\ towers[i].lastShot = 21513
    /\ \E j \in 1..Len(projectiles) : projectiles[j].targetX = (12 + 4) * 4

\* C6: in a run of gameLoop where a tower has an alive enemy in range and
\* more than its attackSpeed has passed since its lastShot, its lastShot
\* becomes the time of the run, whether the roll pushes a projectile or not;
\* the lastShot of every other tower stays.
C6_ResetOnAttempt ==
    [][\A f \in frames, dt \in ClockSteps, rolls \in [1..Len(towers) -> Rolls] :
          GameLoop(f, dt, rolls) =>
              \A i \in 1..Len(towers) :
                  IF /\ NearbyEnemy(towers[i], Moved(enemies, f.cl.gameSpeed)) # 0
                     /\ CurrentTime(dt) - towers[i].lastShot
                            > towerTypes[towers[i].type].attackSpeed
                  THEN towers'[i].lastShot = CurrentTime(dt)
                  ELSE towers'[i].lastShot = towers[i].lastShot]_vars

\* the sniper missed at speed 0.5: its lastShot moved to the time of the run
\* and no projectile aims at the place the enemy had in that run
C6_Witness ==
    /\ ticks = 1
    /\ rendered.gameSpeed = 1
    /\ \E i \in 1..Len(towers) : towers[i].type = "sniper" /\ towers[i].lastShot = 21513
    /\ \A j \in 1..Len(projectiles) : projectiles[j].targetX # (12 + 1) * 4

\* C7: a run of gameLoop that takes removedCount enemies out of the enemy
\* collection, dead or at the end of the track alike, adds exactly
\* 10 * removedCount to gold and takes exactly removedCount from lives; with
\* removedCount = 0 gold and lives stay.  The ones it keeps are alive and
\* short of the end.
C7_RemovalSymmetry ==
    [][ticks' # ticks =>
          LET removedCount == Len(enemies) - Len(enemies')
          IN  /\ removedCount >= 0
              /\ gold' = gold + 10 * removedCount
              /\ lives' = lives - removedCount
              /\ \A i \in 1..Len(enemies') :
                     enemies'[i].health > 0 /\ enemies'[i].progress < D(200)]_vars

\* one run removed an enemy at the end of the track and one the sniper killed
C7_Witness ==
    /\ ticks = 1
    /\ Len(towers) = 1
    /\ towers[1].lastShot >= 20012
    /\ enemies = <<>>
    /\ gold = 100 + 20
    /\ lives = 20 - 2

\* C8: takeDamage(damage, element) takes exactly damage * (1 - r) from
\* health (in hundredths: damage * (100 - r), r in percent), r being the enemy's resistance to the element, or 0 when its table
\* has no entry for it: damage 10 against fire resistance 0.2 takes exactly 8,
\* resistance 0 takes the raw damage, and nothing holds health at 0.
C8_ResistanceArithmetic ==
    [][\A type \in TowerKeys :
          TakeDamage(type) =>
              LET damage == towerTypes[type].damage
                  element == towerTypes[type].element
                  table == enemies[1].resistances
                  r == IF element \in DOMAIN table THEN table[element] ELSE 0
                  taken == enemies[1].health - enemies'[1].health
              IN  /\ taken = damage * (100 - r)
                  /\ (damage = 10 /\ r = 20) => taken = 8 * 100
                  /\ r = 0 => taken = damage * 100
                  /\ element \notin DOMAIN table => taken = damage * 100]_vars

\* the 38th hit of 8 has taken the health of the spawned enemy from 4 to -4
C8_Witness ==
    /\ enemies[1].resistances = [fire |-> 20, ice |-> 0, electric |-> 10]
    /\ enemies[1].health = -4 * 100

\* C9: in a run of gameLoop where a tower has an alive enemy in range and
\* more than its attackSpeed has passed since its lastShot, the tower pushes
\* a projectile if and only if the roll is strictly below the accuracy of its
\* type: a roll equal to the accuracy pushes none.
C9_AccuracyBoundary ==
    [][\A f \in frames, dt \in ClockSteps, rolls \in [1..Len(towers) -> Rolls] :
          GameLoop(f, dt, rolls) =>
              \A i \in 1..Len(towers) :
                  LET moved == Moved(enemies, f.cl.gameSpeed) IN
                  (/\ NearbyEnemy(towers[i], moved) # 0
                   /\ CurrentTime(dt) - towers[i].lastShot
                          > towerTypes[towers[i].type].attackSpeed)
                  => (Len(TowerAttack(towers[i], moved, CurrentTime(dt), rolls[i]).pushed) = 1
                        <=> rolls[i] < towerTypes[towers[i].type].accuracy)]_vars

\* at speed 0.5 the sniper has pushed a projectile at the place the enemy
\* had in the run (its roll was 0 or 80, below the accuracy of 95)
C9_Witness ==
    /\ ticks = 1
    /\ rendered.gameSpeed = 1
    /\ Len(towers) = 1
    /\ towers[1].type = "sniper"
    /\ towers[1].lastShot = 21513
    /\ \E j \in 1..Len(projectiles) : projectiles[j].targetX = (12 + 1) * 4

\* C10, as stated: the run of gameLoop in which the 38th hit lands leaves the
\* enemy, dead at health -4, in the collection, and gold and lives as they
\* were; it is the next run that removes it.
C10_RemovedByNextStep ==
    [][\A f \in frames, dt \in ClockSteps, rolls \in [1..Len(towers) -> Rolls] :
          GameLoop(f, dt, rolls) =>
              \A i \in 1..Len(enemies) :
                  Damaged(f.cl.gameSpeed, CurrentTime(dt), rolls)[i].health = -4 * 100
                  => /\ Len(enemies') = Len(enemies)
                     /\ enemies'[i].health = -4 * 100
                     /\ gold' = gold
                     /\ lives' = lives]_vars

\* C10, amended: the enemy spawned with health 300 and fire resistance 0.2,
\* hit by projectiles of basic towers only, has health 300 - 8k with k <= 37
\* whenever it is in the collection between two runs of gameLoop, so it is
\* alive after 37 hits; each hit that lands in a run takes exactly 8; and the
\* run in which the 38th hit lands, which takes the health to -4, itself
\* removes the enemy, adds 10 to gold and takes 1 from lives.
C10_Scenario ==
    /\ [](\A i \in 1..Len(enemies) :
             \E k \in 0..37 : enemies[i].health = (300 - 8 * k) * 100)
    /\ [][\A f \in frames, dt \in ClockSteps, rolls \in [1..Len(towers) -> Rolls] :
             GameLoop(f, dt, rolls) =>
                 \A i \in 1..Len(enemies) :
                     LET health == Damaged(f.cl.gameSpeed, CurrentTime(dt), rolls)[i].health
                     IN  /\ \E hits \in 0..38 :
                                health = enemies[i].health - hits * 8 * 100
                         /\ health <= 0
                            => /\ health = -4 * 100
                               /\ enemies' = <<>>
                               /\ gold' = gold + 10
                               /\ lives' = lives - 1]_vars

\* the run after the 37th hit: the enemy is gone, one removal is paid
C10_Witness ==
    /\ ticks >= 1
    /\ Len(towers) = 2
    /\ enemies = <<>>
    /\ gold = 100 + 10
    /\ lives = 20 - 1

\* C11: every canvas click that calls addTower, whether addTower buys or
\* refuses, leaves placingTower null, in the state and in the render the
\* click flushes.
C11_PlacingCleared ==
    [][\A place \in TowerPlaces :
          HandleCanvasClick(place) =>
              placingTower' = "none" /\ rendered'.placingTower = "none"]_vars

\* a basic tower was bought from the starting gold and the mode is off
C11_Witness ==
    /\ commands = 2
    /\ Len(towers) = 1
    /\ towers[1].type = "basic"
    /\ gold \in {150, 170}
    /\ placingTower = "none"
    /\ rendered.placingTower = "none"

\* C12: no step removes a tower or changes the place or the type of one; a
\* run of gameLoop changes nothing of a tower but its lastShot, and every
\* other step leaves the towers it found as they were.
C12_TowersOnlyGrow ==
    [][/\ Len(towers') >= Len(towers)
       /\ \A i \in 1..Len(towers) :
             /\ towers'[i].x = towers[i].x
             /\ towers'[i].y = towers[i].y
             /\ towers'[i].type = towers[i].type
             /\ ticks' = ticks => towers'[i] = towers[i]
       /\ ticks' # ticks => Len(towers') = Len(towers)]_vars

\* the sniper of the position has shot again and a second tower stands
C12_Witness ==
    /\ Len(towers) = 2
    /\ towers[1] = [x |-> D(10), y |-> D(200), type |-> "sniper", lastShot |-> 21513]
    /\ towers[2].lastShot = 0

\* C13: a run of gameLoop adds exactly 1 * gameSpeed to the progress of every
\* enemy of the collection and leaves x = 4 * progress (the enemies it keeps
\* show it); no other step changes an enemy it found; progress never
\* decreases.
C13_ProgressAdvances ==
    [][/\ ticks' = ticks => SubSeq(enemies', 1, Len(enemies)) = enemies
       /\ ticks' # ticks =>
             \E keep \in SUBSET (1..Len(enemies)) :
                 /\ Len(enemies') = Cardinality(keep)
                 /\ \A i \in keep :
                       LET j == Cardinality({k \in keep : k <= i})
                       IN  /\ enemies'[j].progress = enemies[i].progress + 1 * gameSpeed
                           /\ enemies'[j].progress > enemies[i].progress
                           /\ enemies'[j].x = 4 * enemies'[j].progress
                           /\ enemies'[j].y = enemies[i].y
                           /\ enemies'[j].maxHealth = enemies[i].maxHealth]_vars

\* an enemy spawned at progress 0 has made one step at speed 2
C13_Witness ==
    /\ ticks = 1
    /\ gameSpeed = D(2)
    /\ \E i \in 1..Len(enemies) :
           enemies[i].progress = D(2) /\ enemies[i].x = 4 * D(2)

\* C14: spawnEnemy appends exactly one enemy at the end of the collection,
\* with progress 0, x = 0, health = maxHealth = 300 and resistances fire 0.2,
\* ice 0, electric 0.1, and changes neither gold, lives, towers, projectiles
\* nor an enemy that was there.
C14_SpawnEnemy ==
    [][spawnEnemy =>
          /\ Len(enemies') = Len(enemies) + 1
          /\ SubSeq(enemies', 1, Len(enemies)) = enemies
          /\ LET enemy == enemies'[Len(enemies')]
             IN  /\ enemy.progress = 0
                 /\ enemy.x = 0
                 /\ enemy.health = 300 * 100
                 /\ enemy.maxHealth = 300 * 100
                 /\ enemy.resistances = [fire |-> 20, ice |-> 0, electric |-> 10]
          /\ UNCHANGED <<gold, lives, towers, projectiles>>]_vars

\* a third enemy was spawned behind the two that are about to leave
C14_Witness ==
    /\ commands = 1
    /\ Len(enemies) = 3
    /\ enemies[1].progress = 399
    /\ enemies[2].progress = 399
    /\ enemies[3].progress = 0
    /\ enemies[3].health = 300 * 100

\* C15: a change of the speed select leaves gameSpeed, in the state and in
\* the render, at the value picked, and nothing else changes gameSpeed, so
\* the speed read back is the last one set; the cancel button leaves
\* placingTower null and a tower button leaves it at its type; none of the
\* three changes gold, lives or an entity collection.
C15_RoundTrip ==
    [][/\ \A speed \in GameSpeeds :
             SetGameSpeed(speed) =>
                 /\ gameSpeed' = speed
                 /\ rendered'.gameSpeed = speed
                 /\ UNCHANGED <<gold, lives, towers, enemies, projectiles>>
       /\ gameSpeed' # gameSpeed => \E speed \in GameSpeeds : SetGameSpeed(speed)
       /\ CancelPlacing =>
             /\ placingTower' = "none"
             /\ rendered'.placingTower = "none"
             /\ UNCHANGED <<gold, lives, towers, enemies, projectiles>>
       /\ \A type \in TowerKeys :
             SetPlacingTower(type) =>
                 /\ placingTower' = type
                 /\ UNCHANGED <<gold, lives, towers, enemies, projectiles>>]_vars

\* from construction the speed was set to 2 and then to 0.5
C15_Witness ==
    /\ commands = 2
    /\ gameSpeed = 1
    /\ rendered.gameSpeed = 1
    /\ gold = 200
    /\ lives = 20
    /\ enemies = <<>>
    /\ towers = <<>>

\* C16: in one run of gameLoop the enemies move first, each tower then
\* targets the moved enemies, the projectiles, the new ones among them, are
\* then advanced and the ones that arrive do their damage, and the enemies
\* are partitioned last: a projectile pushed in the run is in the collection
\* advanced, never as it was pushed, and an enemy whose health the run takes
\* to 0 or below is removed and paid by the same run.
C16_TickOrder ==
    [][\A f \in frames, dt \in ClockSteps, rolls \in [1..Len(towers) -> Rolls] :
          GameLoop(f, dt, rolls) =>
              LET speed == f.cl.gameSpeed
                  moved == Moved(enemies, speed)
                  damaged == Damaged(speed, CurrentTime(dt), rolls)
                  kept == {i \in 1..Len(damaged) :
                             damaged[i].health > 0 /\ damaged[i].progress < D(200)}
              IN  /\ \A i \in 1..Len(towers) :
                        LET attack == TowerAttack(towers[i], moved, CurrentTime(dt), rolls[i])
                        IN  /\ towers'[i] = attack.tower
                            /\ attack.pushed # <<>> =>
                                  LET u == ProjectileUpdate(attack.pushed[1], speed)
                                  IN  /\ u.exists =>
                                            \E j \in 1..Len(projectiles') :
                                                projectiles'[j] = u.projectile
                                      /\ \A j \in 1..Len(projectiles') :
                                            projectiles'[j] # attack.pushed[1]
                  /\ Len(enemies') = Cardinality(kept)
                  /\ \A j \in 1..Len(enemies') : enemies'[j].health > 0
                  /\ gold' = gold + 10 * (Len(enemies) - Cardinality(kept))
                  /\ lives' = lives - (Len(enemies) - Cardinality(kept))]_vars

\* one run at speed 0.5: the sniper aimed at the place the enemy had after
\* its move, its projectile has made its first 2.5, and an older projectile
\* killed the enemy, which is gone and paid
C16_Witness ==
    /\ ticks = 1
    /\ Len(towers) = 1
    /\ towers[1].lastShot = 21513
    /\ enemies = <<>>
    /\ gold = 100 + 10
    /\ lives = 20 - 1
    /\ \E j \in 1..Len(projectiles) :
           /\ projectiles[j].targetX = (12 + 1) * 4
           /\ projectiles[j].x = D(10) + 5 * 1

\* C17: in a run of gameLoop a tower aims at the first enemy, in the order of
\* the collection, that is alive and whose place after the move is at a
\* distance strictly below the range of the tower's type: the projectile it
\* pushes has that enemy's place as its target, a nearer enemy further on in
\* the collection is not preferred, and when no enemy is alive and strictly
\* within range (one exactly at the range is not) the tower pushes nothing.
C17_FirstInRange ==
    [][\A f \in frames, dt \in ClockSteps, rolls \in [1..Len(towers) -> Rolls] :
          GameLoop(f, dt, rolls) =>
              \A i \in 1..Len(towers) :
                  LET speed == f.cl.gameSpeed
                      range == D(towerTypes[towers[i].type].range)
                      placeX(k) == (enemies[k].progress + 1 * speed) * 4
                      eligible == {k \in 1..Len(enemies) :
                                     /\ enemies[k].health > 0
                                     /\ (placeX(k) - towers[i].x) * (placeX(k) - towers[i].x)
                                          + (enemies[k].y - towers[i].y)
                                            * (enemies[k].y - towers[i].y)
                                        < range * range}
                      pushed == TowerAttack(towers[i], Moved(enemies, speed),
                                            CurrentTime(dt), rolls[i]).pushed
                  IN  /\ eligible = {} => pushed = <<>> /\ towers'[i] = towers[i]
                      /\ pushed # <<>> =>
                            \E first \in eligible :
                                /\ \A k \in eligible : first <= k
                                /\ pushed[1].targetX = placeX(first)
                                /\ pushed[1].targetY = enemies[first].y]_vars

\* the sniper at x = 10 aimed at the first enemy, 16 away after its move, and
\* not at the one spawned behind it, 8 away: the first one died in the run
\* and the projectile is on its way to the place it had
C17_Witness ==
    /\ ticks = 1
    /\ commands = 1
    /\ rendered.gameSpeed = 1
    /\ Len(towers) = 1
    /\ towers[1].lastShot = 21513
    /\ Len(enemies) = 1
    /\ enemies[1].progress = 1
    /\ \E j \in 1..Len(projectiles) : projectiles[j].targetX = (12 + 1) * 4
    /\ \A j \in 1..Len(projectiles) : projectiles[j].targetX # (0 + 1) * 4

\* C18: in a run of gameLoop a tower with no alive enemy in range stays as it
\* was, lastShot included, even when its cooldown has elapsed, and so does a
\* tower with an alive enemy in range whose cooldown has not elapsed; such a
\* tower pushes no projectile, so when every tower is one of these the run
\* adds no projectile.
C18_TowerIdles ==
    [][\A f \in frames, dt \in ClockSteps, rolls \in [1..Len(towers) -> Rolls] :
          GameLoop(f, dt, rolls) =>
              LET idle == {i \in 1..Len(towers) :
                             \/ NearbyEnemy(towers[i], Moved(enemies, f.cl.gameSpeed)) = 0
                             \/ CurrentTime(dt) - towers[i].lastShot
                                    <= towerTypes[towers[i].type].attackSpeed}
              IN  /\ \A i \in idle : towers'[i] = towers[i]
                  /\ idle = 1..Len(towers) => Len(projectiles') <= Len(projectiles)]_vars

\* a basic tower bought from the starting gold has seen a run of gameLoop
\* with no enemy on the track: its cooldown had elapsed and lastShot is 0
C18_Witness ==
    /\ ticks >= 1
    /\ commands = 2
    /\ gold = 150
    /\ enemies = <<>>
    /\ projectiles = <<>>
    /\ Len(towers) = 1
    /\ towers[1].type = "basic"
    /\ towers[1].lastShot = 0

\* projectile p is nearer than 5 to its target
C19_Near(p) ==
    (p.targetX - p.x) * (p.targetX - p.x) + (p.targetY - p.y) * (p.targetY - p.y)
        < D(5) * D(5)

\* the projectiles of ps, in order, that are nearer than 5 to their target
C19_Arrived(ps) == SelectSeq(ps, C19_Near)

\* the enemies es after the arrived projectiles from the i-th on: each one
\* damages the first enemy that is then alive and nearer than 20 to its target
\* point, and no enemy if there is none
RECURSIVE C19_AfterArrivals(_, _, _)
C19_AfterArrivals(arrived, i, es) ==
    IF i > Len(arrived) THEN es
    ELSE
      LET p == arrived[i]
          near == {k \in 1..Len(es) :
                     /\ es[k].health > 0
                     /\ (es[k].x - p.targetX) * (es[k].x - p.targetX)
                          + (es[k].y - p.targetY) * (es[k].y - p.targetY) < D(20) * D(20)}
      IN  IF near = {} THEN C19_AfterArrivals(arrived, i + 1, es)
          ELSE LET first == CHOOSE k \in near : \A j \in near : k <= j
               IN  C19_AfterArrivals(arrived, i + 1,
                       [es EXCEPT ![first] = takeDamage(es[first], p.damage, p.element)])

\* C19: in a run of gameLoop every projectile nearer than 5 to its target at
\* its update is removed by that run and damages at most one enemy, the first
\* in the collection that is alive and nearer than 20 to the target point,
\* whichever enemy was aimed at; with no such enemy no health changes, and a
\* projectile that has not arrived changes no health.
C19_Arrival ==
    [][\A f \in frames, dt \in ClockSteps, rolls \in [1..Len(towers) -> Rolls] :
          GameLoop(f, dt, rolls) =>
              LET moved == Moved(enemies, f.cl.gameSpeed)
                  all == TowersAttack(towers, 1, moved, projectiles,
                                      CurrentTime(dt), rolls).projectiles
                  arrived == C19_Arrived(all)
                  after == Damaged(f.cl.gameSpeed, CurrentTime(dt), rolls)
              IN  /\ Len(projectiles') = Len(all) - Len(arrived)
                  /\ LET kept == SelectSeq(all, LAMBDA p : ~C19_Near(p))
                     IN  \A i \in 1..Len(kept) :
                             /\ projectiles'[i].targetX = kept[i].targetX
                             /\ projectiles'[i].targetY = kept[i].targetY
                             /\ projectiles'[i].damage = kept[i].damage
                  /\ after = C19_AfterArrivals(arrived, 1, moved)
                  /\ arrived = <<>> => after = moved]_vars

\* the sniper has not shot since three projectiles aimed at the first enemy
\* were in flight: the first killed that enemy, the second, aimed at x = 44,
\* has arrived two runs later and taken 30 from an enemy spawned since, which
\* stands at x = 12 and at which no projectile was aimed; the third is in flight
C19_Witness ==
    /\ ticks = 3
    /\ Len(towers) = 1
    /\ towers[1].lastShot = 20012
    /\ Len(enemies) = 1
    /\ enemies[1].progress = 3
    /\ enemies[1].x = 12
    /\ enemies[1].health = 27000
    /\ Len(projectiles) = 1
    /\ projectiles[1].targetX = 48

\* C20: a run of gameLoop counts every enemy that is dead or at the end of the
\* track after the projectiles' loop once, an enemy that is both included:
\* lives falls by that count and gold rises by ten times it, and the enemies
\* left are the others, so that no later run counts a removed enemy again.
C20_CountedOnce ==
    [][\A f \in frames, dt \in ClockSteps, rolls \in [1..Len(towers) -> Rolls] :
          GameLoop(f, dt, rolls) =>
              LET after == Damaged(f.cl.gameSpeed, CurrentTime(dt), rolls)
                  removed == {k \in 1..Len(after) :
                                after[k].health <= 0 \/ after[k].progress >= D(200)}
              IN  /\ lives' = lives - Cardinality(removed)
                  /\ gold' = gold + 10 * Cardinality(removed)
                  /\ Len(enemies') = Len(after) - Cardinality(removed)
                  /\ \A k \in 1..Len(enemies') :
                         enemies'[k].health > 0 /\ enemies'[k].progress < D(200)]_vars

\* the enemy that stood one run short of the end with health 30 and a sniper's
\* projectile about to arrive within 20 of the end has been removed, dead and
\* at the end in the same run: one life less and ten gold more
C20_Witness ==
    /\ ticks = 1
    /\ commands = 0
    /\ Len(towers) = 1
    /\ towers[1].x = D(775)
    /\ enemies = <<>>
    /\ lives = 19
    /\ gold = 110
    /\ \A i \in 1..Len(projectiles) : projectiles[i].targetX # 1580

\* C21: while the frames keep coming every spawned enemy is eventually
\* removed: the count of removals, 20 - lives, catches up with the count of
\* spawns; and a run of gameLoop keeps no enemy that its move has taken to
\* progress 200, so that a removal comes at the latest in that run (the 200th
\* after the spawn at speed 1, the 400th at 0.5, the 100th at 2).
C21_EventuallyRemoved ==
    /\ \A n \in 1..MaxCommands :
           (Len(enemies) + (20 - lives) >= n) ~> (20 - lives >= n)
    /\ [][\A f \in frames, dt \in ClockSteps, rolls \in [1..Len(towers) -> Rolls] :
             GameLoopRun(f, dt, rolls) =>
                 /\ Len(enemies') <= Cardinality({k \in 1..Len(enemies) :
                                        enemies[k].progress + 1 * gameSpeed < D(200)})
                 /\ \A k \in 1..Len(enemies') : enemies'[k].progress < D(200)]_vars

\* an enemy was spawned with no tower on the track and has left at the end:
\* the render after its removal shows 19 lives and 210 gold
C21_Witness ==
    /\ towers = <<>>
    /\ enemies = <<>>
    /\ commands >= 1
    /\ lives = 19
    /\ gold = 210
    /\ rendered.lives = 19

\* C22: every projectile is eventually retired: while the frames keep coming,
\* whenever projectiles are in flight there comes a state with none in flight
\* (the tower of SpecFlight stops shooting once the enemy has left its range),
\* at each of the three speeds.
C22_EventuallyRetired == (projectiles # <<>>) ~> (projectiles = <<>>)

\* the sum of the costs of the towers ts
RECURSIVE C23_Costs(_)
C23_Costs(ts) ==
    IF ts = <<>> THEN 0
    ELSE towerTypes[Head(ts).type].cost + C23_Costs(Tail(ts))

\* C23: in every reachable state gold is the 200 of the start, plus 10 for
\* each life lost, minus the costs of the towers placed.
C23_Accounting == gold = 200 + 10 * (20 - lives) - C23_Costs(towers)

\* two towers have been placed, one of them by a click of the model, and an
\* enemy has been removed since
C23_Witness ==
    /\ Len(towers) = 2
    /\ commands = 2
    /\ ticks >= 1
    /\ lives < 20
    /\ rendered.gold = gold

\* C24: between the runs of gameLoop every enemy of the collection is alive
\* and short of the end of the track: health > 0 and progress < 200.
C24_LiveOnTrack ==
    \A k \in 1..Len(enemies) : enemies[k].health > 0 /\ enemies[k].progress < D(200)

\* a run of gameLoop has removed an enemy and kept another, spawned by a
\* command, at full health
C24_Witness ==
    /\ ticks = 1
    /\ commands = 1
    /\ lives = 19
    /\ Len(enemies) = 1
    /\ enemies[1].health = 30000
    /\ enemies[1].progress > 0

\* C25: while placing mode is on for a tower type, gold covers the cost of
\* that type, in the component's state and in the render whose handlers are
\* live, so that the gold test of addTower never fails on a canvas click.
C25_PlacingAffordable ==
    /\ placingTower # "none" => gold >= towerTypes[placingTower].cost
    /\ rendered.placingTower # "none" =>
           rendered.gold >= towerTypes[rendered.placingTower].cost

\* placing mode is on for the sniper with exactly its cost in gold, after an
\* earlier purchase
C25_Witness ==
    /\ placingTower = "sniper"
    /\ rendered.placingTower = "sniper"
    /\ gold = 100
    /\ rendered.gold = 100
    /\ Len(towers) = 1

\* C26: at most one frame callback of the game loop is pending at any time,
\* and it is the one the ref names; every commit that re-runs the effect
\* leaves exactly the frame it requested, for the gameLoop of the new render;
\* and a run of gameLoop, which consumes the pending callback, leaves at most
\* the one it requested itself, so that no second run can follow in the same
\* frame.
C26_OnePendingFrame ==
    /\ [](/\ Cardinality(frames) <= 1
          /\ \A f \in frames : f.id = animationFrameId)
    /\ [][rendered' # rendered =>
             frames' = {[id |-> animationFrameId', cl |-> rendered']}]_vars
    /\ [][ticks' # ticks =>
             /\ Cardinality(frames) = 1
             /\ \A f \in frames' : f.id = animationFrameId' /\ f.cl \in {g.cl : g \in frames}]_vars

\* the effect has been re-run by the render that followed a removal, after
\* a command and a run of gameLoop: one frame is pending, for the gameLoop of
\* that render
C26_Witness ==
    /\ ticks >= 1
    /\ commands >= 1
    /\ rendered.lives = 19
    /\ lives = 19
    /\ frames = {[id |-> animationFrameId, cl |-> rendered]}

====
